---- MODULE Spec2Model ----
(***************************************************************************)
(* Model of scripts/build_font.py: the primitive shape library, the        *)
(* composite pictograms, the draw_glyph dispatch chain, the GLYPH_MAP      *)
(* codepoint table and the build_font assembly procedure.                  *)
(*                                                                         *)
(* A pen is modelled by the sequence of calls made on it: each call is a   *)
(* record [op, pts].  Every drawing function of the source becomes an      *)
(* operator that yields the calls it makes, in order.                      *)
(***************************************************************************)
EXTENDS Integers, Sequences, FiniteSets, TLC

VARIABLES pc, idx, glyph_names, cmap, glyph_dict, metrics, fb, out_file,
          fn, args, pen, fallback_hit

vars == <<pc, idx, glyph_names, cmap, glyph_dict, metrics, fb, out_file,
          fn, args, pen, fallback_hit>>

(* the tables of build_font; the record of the last drawing call *)
build_vars == <<idx, glyph_names, cmap, glyph_dict, metrics, fb, out_file>>
call_vars == <<fn, args, pen, fallback_hit>>

(***************************************************************************)
(* Font metrics.                                                           *)
(***************************************************************************)
UPM == 1000
ASCENT == 800
DESCENT == -200
ADVANCE_WIDTH == 600
M == 50
W == ADVANCE_WIDTH - 2 * M
H == ASCENT - M

(***************************************************************************)
(* Bounds of the inputs explored for the pure drawing functions.           *)
(***************************************************************************)
MaxSize == 400
MaxRadius == 200

(***************************************************************************)
(* Number arithmetic.  Python's // on a positive divisor is \div.          *)
(* int(x) truncates toward zero; x is given as the fraction num / den.     *)
(***************************************************************************)
(* slip: round-to-nearest instead of int() *)
py_int_nearest(num, den) == (2 * num + den) \div (2 * den)

py_int(num, den) ==
    IF num >= 0 THEN num \div den ELSE -((-num) \div den)

(* The literal 0.5522847498 as two five-digit groups: K_HI / 10^5 +        *)
(* K_LO / 10^10.  The product with r is kept below 2^31 by dividing the    *)
(* low group first; for an integer r >= 0 the floor is unchanged.          *)
K_GROUP == 100000
K_HI == 55228
K_LO == 47498

(* slip: round(k * r) instead of int(k * r) *)
int_k_times_nearest(r) ==
    (r * K_HI + (r * K_LO) \div K_GROUP + K_GROUP \div 2) \div K_GROUP

(* int(k * r) of circle, r >= 0 *)
int_k_times(r) == (r * K_HI + (r * K_LO) \div K_GROUP) \div K_GROUP

(* int(0.55 * half) of the arcs *)
int_055_times(half) == py_int(55 * half, 100)

(* math.cos / math.sin at the angles the program uses, in units of 10^-6.  *)
TRIG_UNIT == 1000000

COS_Q1 ==
    [d \in {0, 18, 36, 45, 54, 72, 90} |->
        CASE d = 0  -> 1000000
          [] d = 18 -> 951057
          [] d = 36 -> 809017
          [] d = 45 -> 707107
          [] d = 54 -> 587785
          [] d = 72 -> 309017
          [] d = 90 -> 0]

cos_e6(deg) ==
    LET d == deg % 360 IN
    IF d <= 90 THEN COS_Q1[d]
    ELSE IF d <= 180 THEN -COS_Q1[180 - d]
    ELSE IF d <= 270 THEN -COS_Q1[d - 180]
    ELSE COS_Q1[360 - d]

sin_e6(deg) == cos_e6(deg + 270)

(* int(r * math.cos(angle)) and int(r * math.sin(angle)) *)
int_r_cos(r, deg) == py_int(r * cos_e6(deg), TRIG_UNIT)
int_r_sin(r, deg) == py_int(r * sin_e6(deg), TRIG_UNIT)

(***************************************************************************)
(* Pen calls.                                                              *)
(***************************************************************************)
moveTo(x, y) == <<[op |-> "moveTo", pts |-> << <<x, y>> >>]>>
lineTo(x, y) == <<[op |-> "lineTo", pts |-> << <<x, y>> >>]>>
curveTo(x1, y1, x2, y2, x3, y3) ==
    <<[op |-> "curveTo", pts |-> << <<x1, y1>>, <<x2, y2>>, <<x3, y3>> >>]>>
closePath == <<[op |-> "closePath", pts |-> << >>]>>
endPath == <<[op |-> "endPath", pts |-> << >>]>>

(* The calls of the iterations of a for loop, one after the other. *)
RECURSIVE Flatten(_)
Flatten(ss) == IF ss = << >> THEN << >> ELSE Head(ss) \o Flatten(Tail(ss))

(***************************************************************************)
(* Primitive shapes.                                                       *)
(***************************************************************************)
triangle_up(cx, cy, size) ==
    LET half == size \div 2 IN
    moveTo(cx, cy + half)
    \o lineTo(cx + half, cy - half)
    \o lineTo(cx - half, cy - half)
    \o closePath

triangle_down(cx, cy, size) ==
    LET half == size \div 2 IN
    moveTo(cx, cy - half)
    \o lineTo(cx + half, cy + half)
    \o lineTo(cx - half, cy + half)
    \o closePath

diamond(cx, cy, size) ==
    LET half == size \div 2 IN
    moveTo(cx, cy + half)
    \o lineTo(cx + half, cy)
    \o lineTo(cx, cy - half)
    \o lineTo(cx - half, cy)
    \o closePath

circle(cx, cy, r) ==
    LET kr == int_k_times(r) IN
    moveTo(cx, cy + r)
    \o curveTo(cx + kr, cy + r, cx + r, cy + kr, cx + r, cy)
    \o curveTo(cx + r, cy - kr, cx + kr, cy - r, cx, cy - r)
    \o curveTo(cx - kr, cy - r, cx - r, cy - kr, cx - r, cy)
    \o curveTo(cx - r, cy + kr, cx - kr, cy + r, cx, cy + r)
    \o closePath

arc_left(cx, cy, size) ==
    LET half == size \div 2
        k == int_055_times(half) IN
    moveTo(cx + half, cy + half)
    \o curveTo(cx + half - k, cy + half, cx, cy + k, cx, cy)
    \o curveTo(cx, cy - k, cx + half - k, cy - half, cx + half, cy - half)
    \o endPath

arc_right(cx, cy, size) ==
    LET half == size \div 2
        k == int_055_times(half) IN
    moveTo(cx - half, cy + half)
    \o curveTo(cx - half + k, cy + half, cx, cy + k, cx, cy)
    \o curveTo(cx, cy - k, cx - half + k, cy - half, cx - half, cy - half)
    \o endPath

arrow_right(cx, cy, size) ==
    LET half == size \div 2
        qtr == size \div 4 IN
    moveTo(cx - half, cy - qtr)
    \o lineTo(cx, cy - qtr)
    \o lineTo(cx, cy - half)
    \o lineTo(cx + half, cy)
    \o lineTo(cx, cy + half)
    \o lineTo(cx, cy + qtr)
    \o lineTo(cx - half, cy + qtr)
    \o closePath

arrow_up(cx, cy, size) ==
    LET half == size \div 2
        qtr == size \div 4 IN
    moveTo(cx, cy + half)
    \o lineTo(cx + half, cy)
    \o lineTo(cx + qtr, cy)
    \o lineTo(cx + qtr, cy - half)
    \o lineTo(cx - qtr, cy - half)
    \o lineTo(cx - qtr, cy)
    \o lineTo(cx - half, cy)
    \o closePath

arrow_down(cx, cy, size) ==
    LET half == size \div 2
        qtr == size \div 4 IN
    moveTo(cx, cy - half)
    \o lineTo(cx + half, cy)
    \o lineTo(cx + qtr, cy)
    \o lineTo(cx + qtr, cy + half)
    \o lineTo(cx - qtr, cy + half)
    \o lineTo(cx - qtr, cy)
    \o lineTo(cx - half, cy)
    \o closePath

box_rect(x, y, w, h) ==
    moveTo(x, y)
    \o lineTo(x + w, y)
    \o lineTo(x + w, y + h)
    \o lineTo(x, y + h)
    \o closePath

(* points[i] of star_5, i in 0..9 *)
star_5_point(cx, cy, outer_r, inner_r, i) ==
    LET r == IF i % 2 = 0 THEN outer_r ELSE inner_r
        angle == 90 + i * 36 IN
    <<cx + int_r_cos(r, angle), cy + int_r_sin(r, angle)>>

star_5(cx, cy, outer_r, inner_r) ==
    LET points == [j \in 1..10 |->
                      star_5_point(cx, cy, outer_r, inner_r, j - 1)] IN
    moveTo(points[1][1], points[1][2])
    \o Flatten([j \in 1..9 |-> lineTo(points[j + 1][1], points[j + 1][2])])
    \o closePath

cross(cx, cy, size) ==
    LET t == size \div 6
        half == size \div 2 IN
    box_rect(cx - half, cy - t, size, 2 * t)
    \o box_rect(cx - t, cy - half, 2 * t, size)

(* slip: the wave closed like a filled shape *)
wave_closed(cx, cy, size) ==
    LET half == size \div 2
        qtr == size \div 4 IN
    moveTo(cx - half, cy)
    \o curveTo(cx - qtr, cy + qtr, cx, cy + qtr, cx, cy)
    \o curveTo(cx, cy - qtr, cx + qtr, cy - qtr, cx + half, cy)
    \o closePath

wave(cx, cy, size) ==
    LET half == size \div 2
        qtr == size \div 4 IN
    moveTo(cx - half, cy)
    \o curveTo(cx - qtr, cy + qtr, cx, cy + qtr, cx, cy)
    \o curveTo(cx, cy - qtr, cx + qtr, cy - qtr, cx + half, cy)
    \o endPath

dot_glyph(cx, cy, size) == circle(cx, cy, size \div 6)

(***************************************************************************)
(* Composite pictograms.                                                   *)
(***************************************************************************)
(* slip: the roof centred on the glyph centre, not size/4 above it *)
house_roof_low(cx, cy, size) ==
    LET half == size \div 2
        qtr == size \div 4 IN
    box_rect(cx - half + qtr, cy - half, half, half)
    \o triangle_up(cx, cy, half)

house(cx, cy, size) ==
    LET half == size \div 2
        qtr == size \div 4 IN
    box_rect(cx - half + qtr, cy - half, half, half)
    \o triangle_up(cx, cy + qtr, half)

pillar(cx, cy, size) ==
    LET t == size \div 8
        half == size \div 2 IN
    box_rect(cx - t, cy - half, 2 * t, size)
    \o box_rect(cx - t * 2, cy + half - t, 4 * t, t)
    \o box_rect(cx - t * 2, cy - half, 4 * t, t)

(* slip: the body drawn with its apex at the bottom *)
person_inverted(cx, cy, size) ==
    LET head_r == size \div 6
        body_h == size \div 2
        body_w == size \div 3 IN
    circle(cx, cy + size \div 3, head_r)
    \o moveTo(cx, cy + size \div 3 - head_r - body_h)
    \o lineTo(cx + body_w, cy + size \div 3 - head_r - 2)
    \o lineTo(cx - body_w, cy + size \div 3 - head_r - 2)
    \o closePath

person(cx, cy, size) ==
    LET head_r == size \div 6
        body_h == size \div 2
        body_w == size \div 3 IN
    circle(cx, cy + size \div 3, head_r)
    \o moveTo(cx, cy + size \div 3 - head_r - 2)
    \o lineTo(cx + body_w, cy + size \div 3 - head_r - body_h)
    \o lineTo(cx - body_w, cy + size \div 3 - head_r - body_h)
    \o closePath

CX == ADVANCE_WIDTH \div 2
CY == (ASCENT + DESCENT) \div 2
(* slip: the glyph size set to the usable width of the cell *)
SZ_usable_width == ADVANCE_WIDTH - 2 * M

SZ == 400


(***************************************************************************)
(* draw_glyph: the if / elif chain on the glyph name.  The result records  *)
(* the calls made on the pen and whether the final else branch was taken.  *)
(***************************************************************************)
Named(calls) == [fallback |-> FALSE, calls |-> calls]
Fallback(calls) == [fallback |-> TRUE, calls |-> calls]

(* one ray of rad:sun, i in 0..7 *)
sun_ray(cx, cy, sz, i) ==
    LET angle == i * 45
        x1 == cx + int_r_cos(sz \div 3 + 20, angle)
        y1 == cy + int_r_sin(sz \div 3 + 20, angle)
        x2 == cx + int_r_cos(sz \div 2, angle)
        y2 == cy + int_r_sin(sz \div 2, angle) IN
    moveTo(x1, y1) \o lineTo(x2, y2) \o endPath

(* one finger of rad:hand, i in 0..4 *)
hand_finger(cx, cy, sz, i) ==
    LET x == cx - sz \div 4 + (i * (sz \div 2)) \div 4 IN
    moveTo(x, cy + sz \div 12) \o lineTo(x, cy + sz \div 3) \o endPath

draw_glyph(glyph_name) ==
    LET cx == CX
        cy == CY
        sz == SZ
    IN
    CASE glyph_name = "is-a" -> Named(triangle_up(cx, cy, sz))
      [] glyph_name = "part-of" -> Named(arc_left(cx, cy, sz))
      [] glyph_name = "has-a" -> Named(diamond(cx, cy, sz))
      [] glyph_name = "contains" -> Named(arc_right(cx, cy, sz))
      [] glyph_name = "parent-of" -> Named(arrow_down(cx, cy, sz))
      [] glyph_name = "child-of" -> Named(arrow_up(cx, cy, sz))
      [] glyph_name = "similar-to" ->
            Named(wave(cx, cy + 40, sz) \o wave(cx, cy - 40, sz))
      [] glyph_name = "causes" -> Named(arrow_right(cx, cy, sz))
      [] glyph_name = "precedes" ->
            LET half == sz \div 2 IN
            Named(moveTo(cx + half \div 2, cy + half)
                  \o lineTo(cx - half \div 2, cy)
                  \o lineTo(cx + half \div 2, cy - half)
                  \o endPath)
      [] glyph_name = "located-in" -> Named(house(cx, cy, sz))
      [] glyph_name = "created-by" ->
            LET half == sz \div 2 IN
            Named(moveTo(cx - half, cy - half)
                  \o lineTo(cx + half, cy + half)
                  \o endPath
                  \o triangle_up(cx + half - 30, cy + half - 30, 60))
      [] glyph_name = "depends-on" -> Named(arrow_right(cx, cy, sz))
      [] glyph_name = "opposes" ->
            LET t == sz \div 8
                half == sz \div 2 IN
            Named(box_rect(cx - half, cy + half - t, sz, t)
                  \o box_rect(cx - t, cy - half, 2 * t, sz))
      [] glyph_name = "enables" -> Named(arrow_right(cx, cy, sz))
      [] glyph_name = "knows" ->
            Named(circle(cx, cy, sz \div 2) \o circle(cx, cy, sz \div 4))
      [] glyph_name = "type:person" -> Named(person(cx, cy, sz))
      [] glyph_name = "type:place" -> Named(house(cx, cy, sz))
      [] glyph_name = "type:thing" ->
            Named(box_rect(cx - sz \div 3, cy - sz \div 3,
                           (sz * 2) \div 3, (sz * 2) \div 3))
      [] glyph_name = "type:concept" ->
            Named(circle(cx, cy + 40, sz \div 3)
                  \o box_rect(cx - 30, cy - sz \div 4, 60, 40))
      [] glyph_name = "type:event" ->
            LET half == sz \div 2 IN
            Named(moveTo(cx, cy + half)
                  \o lineTo(cx + half \div 3, cy)
                  \o lineTo(cx - half \div 6, cy)
                  \o lineTo(cx, cy - half)
                  \o lineTo(cx - half \div 3, cy)
                  \o lineTo(cx + half \div 6, cy)
                  \o closePath)
      [] glyph_name = "type:quantity" ->
            LET t == sz \div 10
                third == sz \div 3 IN
            Named(box_rect(cx - third, cy - sz \div 2, t, sz)
                  \o box_rect(cx + third - t, cy - sz \div 2, t, sz)
                  \o box_rect(cx - sz \div 2, cy - third + t, sz, t)
                  \o box_rect(cx - sz \div 2, cy + third - t, sz, t))
      [] glyph_name = "type:time" ->
            Named(circle(cx, cy, sz \div 2)
                  \o moveTo(cx, cy)
                  \o lineTo(cx, cy + sz \div 3)
                  \o endPath
                  \o moveTo(cx, cy)
                  \o lineTo(cx + sz \div 4, cy)
                  \o endPath)
      [] glyph_name = "type:group" ->
            LET r == sz \div 6 IN
            Named(circle(cx - r * 2, cy, r)
                  \o circle(cx, cy, r)
                  \o circle(cx + r * 2, cy, r))
      [] glyph_name = "type:process" -> Named(circle(cx, cy, sz \div 3))
      [] glyph_name = "type:property" ->
            LET t == sz \div 10
                dys == <<(-sz) \div 4, 0, sz \div 4>> IN
            Named(Flatten([j \in 1..3 |->
                      box_rect(cx - sz \div 3, cy + dys[j] - t \div 2,
                               (sz * 2) \div 3, t)]))
      [] glyph_name = "prov:asserted" -> Named(diamond(cx, cy, sz))
      [] glyph_name = "prov:inferred" -> Named(diamond(cx, cy, sz))
      [] glyph_name = "prov:fused" ->
            Named(circle(cx, cy, sz \div 2) \o cross(cx, cy, sz \div 2))
      [] glyph_name = "prov:discovered" ->
            Named(star_5(cx, cy, sz \div 2, sz \div 4))
      [] glyph_name = "prov:gap" ->
            Named(circle(cx, cy + sz \div 4, sz \div 4)
                  \o dot_glyph(cx, cy - sz \div 3, sz))
      [] glyph_name = "struct:triple" ->
            LET half == sz \div 2 IN
            Named(moveTo(cx + half \div 2, cy + half)
                  \o lineTo(cx - half \div 2, cy)
                  \o lineTo(cx + half \div 2, cy - half)
                  \o endPath)
      [] glyph_name = "struct:end" ->
            LET half == sz \div 2 IN
            Named(moveTo(cx - half \div 2, cy + half)
                  \o lineTo(cx + half \div 2, cy)
                  \o lineTo(cx - half \div 2, cy - half)
                  \o endPath)
      [] glyph_name = "struct:chain" ->
            LET t == sz \div 10 IN
            Named(box_rect(cx - sz \div 2, cy - t \div 2, sz, t))
      [] glyph_name = "struct:branch" ->
            LET t == sz \div 10
                half == sz \div 2 IN
            Named(box_rect(cx - t, cy - half, 2 * t, sz)
                  \o box_rect(cx, cy - t \div 2, half, t))
      [] glyph_name = "struct:confidence" -> Named(circle(cx, cy, sz \div 3))
      [] glyph_name = "rad:eye" ->
            LET half == sz \div 2
                k == half \div 2 IN
            Named(moveTo(cx - half, cy)
                  \o curveTo(cx - k, cy + k, cx + k, cy + k, cx + half, cy)
                  \o curveTo(cx + k, cy - k, cx - k, cy - k, cx - half, cy)
                  \o closePath
                  \o circle(cx, cy, sz \div 8))
      [] glyph_name = "rad:bird" ->
            LET half == sz \div 2 IN
            Named(moveTo(cx - half, cy)
                  \o curveTo(cx - half \div 2, cy + half,
                             cx, cy + half \div 2, cx, cy)
                  \o endPath
                  \o moveTo(cx, cy)
                  \o curveTo(cx, cy + half \div 2,
                             cx + half \div 2, cy + half, cx + half, cy)
                  \o endPath)
      [] glyph_name = "rad:serpent" -> Named(wave(cx, cy, sz))
      [] glyph_name = "rad:fish" ->
            LET half == sz \div 3 IN
            Named(circle(cx - 20, cy, sz \div 3)
                  \o moveTo(cx + half, cy)
                  \o lineTo(cx + half + half \div 2, cy + half \div 2)
                  \o lineTo(cx + half + half \div 2, cy - half \div 2)
                  \o closePath)
      [] glyph_name = "rad:hand" ->
            Named(box_rect(cx - sz \div 4, cy - sz \div 4,
                           sz \div 2, sz \div 3)
                  \o Flatten([j \in 1..5 |-> hand_finger(cx, cy, sz, j - 1)]))
      [] glyph_name = "rad:foot" ->
            Named(circle(cx, cy - 30, sz \div 3)
                  \o box_rect(cx - sz \div 6, cy - sz \div 3,
                              sz \div 3, sz \div 4))
      [] glyph_name = "rad:face" ->
            Named(circle(cx, cy, sz \div 2)
                  \o circle(cx - sz \div 6, cy + sz \div 8, sz \div 16)
                  \o circle(cx + sz \div 6, cy + sz \div 8, sz \div 16))
      [] glyph_name = "rad:figure" -> Named(person(cx, cy, sz))
      [] glyph_name = "rad:sun" ->
            Named(circle(cx, cy, sz \div 3)
                  \o Flatten([j \in 1..8 |-> sun_ray(cx, cy, sz, j - 1)]))
      [] glyph_name = "rad:moon" -> Named(circle(cx, cy, sz \div 2))
      [] glyph_name = "rad:water" ->
            Named(wave(cx, cy + 40, sz)
                  \o wave(cx, cy, sz)
                  \o wave(cx, cy - 40, sz))
      [] glyph_name = "rad:mountain" ->
            Named(triangle_up(cx - sz \div 4, cy, sz \div 2)
                  \o triangle_up(cx + sz \div 4, cy - sz \div 8,
                                 (sz * 3) \div 4))
      [] glyph_name = "rad:tree" ->
            Named(triangle_up(cx, cy + sz \div 6, sz \div 2)
                  \o box_rect(cx - sz \div 16, cy - sz \div 3,
                              sz \div 8, sz \div 3))
      [] glyph_name = "rad:fire" -> Named(triangle_up(cx, cy, sz))
      [] glyph_name = "rad:wind" ->
            LET dys == <<-40, 0, 40>> IN
            Named(Flatten([j \in 1..3 |-> wave(cx, cy + dys[j], sz)]))
      [] glyph_name = "rad:earth" ->
            Named(circle(cx, cy, sz \div 2) \o cross(cx, cy, sz))
      [] glyph_name = "rad:house" -> Named(house(cx, cy, sz))
      [] glyph_name = "rad:pillar" -> Named(pillar(cx, cy, sz))
      [] glyph_name = "rad:arch" ->
            LET half == sz \div 2
                k == int_055_times(half) IN
            Named(moveTo(cx - half, cy - half)
                  \o lineTo(cx - half, cy)
                  \o curveTo(cx - half, cy + k, cx - k, cy + half,
                             cx, cy + half)
                  \o curveTo(cx + k, cy + half, cx + half, cy + k,
                             cx + half, cy)
                  \o lineTo(cx + half, cy - half)
                  \o endPath)
      [] glyph_name = "rad:wall" ->
            Named(box_rect(cx - sz \div 2, cy - sz \div 4, sz, sz \div 2))
      [] glyph_name = "rad:gate" ->
            LET t == sz \div 8
                half == sz \div 2 IN
            Named(box_rect(cx - half, cy - half, t, sz)
                  \o box_rect(cx + half - t, cy - half, t, sz)
                  \o box_rect(cx - half, cy + half - t, sz, t))
      [] glyph_name = "rad:path" ->
            LET t == sz \div 12 IN
            Named(box_rect(cx - sz \div 2, cy + t, sz, t)
                  \o box_rect(cx - sz \div 2, cy - 2 * t, sz, t))
      [] glyph_name = "rad:bridge" ->
            LET half == sz \div 2
                k == int_055_times(half)
                t == sz \div 10 IN
            Named(moveTo(cx - half, cy)
                  \o curveTo(cx - half, cy + k, cx - k, cy + half \div 2,
                             cx, cy + half \div 2)
                  \o curveTo(cx + k, cy + half \div 2, cx + half, cy + k,
                             cx + half, cy)
                  \o endPath
                  \o box_rect(cx - half, cy - half, t, half)
                  \o box_rect(cx + half - t, cy - half, t, half))
      [] glyph_name = "rad:tower" -> Named(circle(cx, cy, sz \div 2))
      [] glyph_name = "rad:ankh" ->
            LET t == sz \div 10 IN
            Named(circle(cx, cy + sz \div 4, sz \div 5)
                  \o box_rect(cx - t, cy - sz \div 3, 2 * t, sz \div 2)
                  \o box_rect(cx - sz \div 4, cy, sz \div 2, t))
      [] glyph_name = "rad:spiral" ->
            Named(circle(cx, cy, sz \div 3)
                  \o moveTo(cx + sz \div 3, cy)
                  \o curveTo(cx + sz \div 2, cy + sz \div 4,
                             cx + sz \div 4, cy + sz \div 2,
                             cx, cy + sz \div 3)
                  \o endPath)
      [] glyph_name = "rad:star" ->
            Named(star_5(cx, cy, sz \div 2, sz \div 4))
      [] glyph_name = "rad:arrow" -> Named(arrow_right(cx, cy, sz))
      [] glyph_name = "rad:loop" ->
            LET r == sz \div 4 IN
            Named(circle(cx - r, cy, r) \o circle(cx + r, cy, r))
      [] glyph_name = "rad:cross" -> Named(cross(cx, cy, sz))
      [] glyph_name = "rad:wave" -> Named(wave(cx, cy, sz))
      [] glyph_name = "rad:dot" -> Named(dot_glyph(cx, cy, sz))
      [] OTHER -> Fallback(box_rect(cx - 20, cy - 20, 40, 40))

(***************************************************************************)
(* GLYPH_MAP.  The dict display is a list of key / value pairs evaluated   *)
(* left to right; a repeated key keeps its last value.                     *)
(***************************************************************************)
FIXED_GLYPHS == <<
    <<57344, "is-a">>, <<57345, "part-of">>, <<57346, "has-a">>,
    <<57347, "contains">>, <<57348, "parent-of">>, <<57349, "child-of">>,
    <<57350, "similar-to">>, <<57351, "causes">>, <<57352, "precedes">>,
    <<57353, "located-in">>, <<57354, "created-by">>, <<57355, "depends-on">>,
    <<57356, "opposes">>, <<57357, "enables">>, <<57358, "knows">>,
    <<57359, "type:person">>, <<57360, "type:place">>, <<57361, "type:thing">>,
    <<57362, "type:concept">>, <<57363, "type:event">>,
    <<57364, "type:quantity">>,
    <<57365, "type:time">>, <<57366, "type:group">>, <<57367, "type:process">>,
    <<57368, "type:property">>,
    <<57369, "prov:asserted">>, <<57370, "prov:inferred">>,
    <<57371, "prov:fused">>, <<57372, "prov:discovered">>,
    <<57373, "prov:gap">>,
    <<57374, "struct:triple">>, <<57375, "struct:end">>,
    <<57376, "struct:chain">>, <<57377, "struct:branch">>,
    <<57378, "struct:confidence">> >>

RADICALS == <<
    <<57600, "rad:eye">>, <<57601, "rad:bird">>, <<57602, "rad:serpent">>,
    <<57603, "rad:fish">>, <<57604, "rad:hand">>, <<57605, "rad:foot">>,
    <<57606, "rad:face">>, <<57607, "rad:figure">>,
    <<57608, "rad:sun">>, <<57609, "rad:moon">>, <<57610, "rad:water">>,
    <<57611, "rad:mountain">>, <<57612, "rad:tree">>, <<57613, "rad:fire">>,
    <<57614, "rad:wind">>, <<57615, "rad:earth">>,
    <<57616, "rad:house">>, <<57617, "rad:pillar">>, <<57618, "rad:arch">>,
    <<57619, "rad:wall">>, <<57620, "rad:gate">>, <<57621, "rad:path">>,
    <<57622, "rad:bridge">>, <<57623, "rad:tower">>,
    <<57624, "rad:ankh">>, <<57625, "rad:spiral">>, <<57626, "rad:star">>,
    <<57627, "rad:arrow">>, <<57628, "rad:loop">>, <<57629, "rad:cross">>,
    <<57630, "rad:wave">>, <<57631, "rad:dot">> >>

(* slip: rad:eye entered under the name "rad:eyes" *)
GLYPH_MAP_DISPLAY_typo ==
    FIXED_GLYPHS \o << <<57600, "rad:eyes">> >> \o Tail(RADICALS)

(* slip: rad:eye entered under the key 0xE022 a second time *)
GLYPH_MAP_DISPLAY_dup ==
    FIXED_GLYPHS \o << <<57378, "rad:eye">> >> \o Tail(RADICALS)

GLYPH_MAP_DISPLAY == FIXED_GLYPHS \o RADICALS

(* the dict a display evaluates to *)
DictOf(display) ==
    [c \in {display[j][1] : j \in 1..Len(display)} |->
        LET last == CHOOSE j \in 1..Len(display) :
                        /\ display[j][1] = c
                        /\ \A m \in 1..Len(display) :
                               display[m][1] = c => m <= j
        IN display[last][2]]

GLYPH_MAP == DictOf(GLYPH_MAP_DISPLAY)


(***************************************************************************)
(* sorted(GLYPH_MAP.items()): the items in ascending order of the key.     *)
(***************************************************************************)
(* slip: sorted(..., reverse=True) *)
RECURSIVE sorted_keys_desc(_)
sorted_keys_desc(S) ==
    IF S = {} THEN << >>
    ELSE LET most == CHOOSE x \in S : \A y \in S : x >= y
         IN <<most>> \o sorted_keys_desc(S \ {most})

RECURSIVE sorted_keys(_)
sorted_keys(S) ==
    IF S = {} THEN << >>
    ELSE LET least == CHOOSE x \in S : \A y \in S : x <= y
         IN <<least>> \o sorted_keys(S \ {least})

sorted_items(d) ==
    LET ks == sorted_keys(DOMAIN d) IN
    [j \in 1..Len(ks) |-> <<ks[j], d[ks[j]]>>]

(***************************************************************************)
(* f"uni{codepoint:04X}" and int(glyph_name[3:], 16).                      *)
(***************************************************************************)
HEX_DIGITS == <<"0", "1", "2", "3", "4", "5", "6", "7",
                "8", "9", "A", "B", "C", "D", "E", "F">>

RECURSIVE format_X(_)
format_X(n) ==
    IF n < 16 THEN HEX_DIGITS[n + 1]
    ELSE format_X(n \div 16) \o HEX_DIGITS[(n % 16) + 1]

RECURSIVE zero_pad(_, _)
zero_pad(s, width) ==
    IF Len(s) >= width THEN s ELSE zero_pad("0" \o s, width)

(* slip: the format spec 04x, lower-case digits *)
RECURSIVE format_x_lower(_)
format_x_lower(n) ==
    LET digits == <<"0", "1", "2", "3", "4", "5", "6", "7",
                    "8", "9", "a", "b", "c", "d", "e", "f">>
    IN IF n < 16 THEN digits[n + 1]
       ELSE format_x_lower(n \div 16) \o digits[(n % 16) + 1]

uni_name_lower(codepoint) == "uni" \o zero_pad(format_x_lower(codepoint), 4)

uni_name(codepoint) == "uni" \o zero_pad(format_X(codepoint), 4)

hex_value(ch) == (CHOOSE j \in 1..16 : HEX_DIGITS[j] = ch) - 1

RECURSIVE int_base16(_)
int_base16(s) ==
    IF Len(s) = 0 THEN 0
    ELSE int_base16(SubSeq(s, 1, Len(s) - 1)) * 16
         + hex_value(SubSeq(s, Len(s), Len(s)))

(* glyph_name[3:] *)
from_3(glyph_name) == SubSeq(glyph_name, 4, Len(glyph_name))

(* GLYPH_MAP.get(cp, "") *)
glyph_map_get(cp) == IF cp \in DOMAIN GLYPH_MAP THEN GLYPH_MAP[cp] ELSE ""


(***************************************************************************)
(* build_font.  pc is the position in the script:                          *)
(*   import  - the try / except ImportError at module load                 *)
(*   names   - the loop over sorted(GLYPH_MAP.items())                     *)
(*   draw    - the loop that draws every glyph into a fresh pen            *)
(*   metrics - the loop that fills the metrics dict                        *)
(*   save    - os.makedirs and fb.font.save                                *)
(*   done / failed / exit1 - normal return, uncaught exception,            *)
(*                           sys.exit(1)                                   *)
(* fb holds the tables handed to the FontBuilder; out_file is what is      *)
(* found at out_path: "absent", "partial" or "complete".                   *)
(***************************************************************************)
NO_TABLES == [glyphOrder |-> << >>, cmap |-> << >>,
              charStrings |-> << >>, metrics |-> << >>]

Init ==
    /\ pc = "import"
    /\ idx = 0
    /\ glyph_names = << >>
    /\ cmap = << >>
    /\ glyph_dict = << >>
    /\ metrics = << >>
    /\ fb = NO_TABLES
    /\ out_file = "absent"
    /\ fn = "none"
    /\ args = << >>
    /\ pen = << >>
    /\ fallback_hit = FALSE

(* from fontTools... import succeeds; build_font starts *)
ImportOk ==
    /\ pc = "import"
    /\ pc' = "names"
    /\ glyph_names' = <<".notdef", "space">>
    /\ cmap' = (32 :> "space")
    /\ UNCHANGED <<idx, glyph_dict, metrics, fb, out_file>>
    /\ UNCHANGED call_vars

(* ImportError: message on stderr, sys.exit(1) *)
ImportFails ==
    /\ pc = "import"
    /\ pc' = "exit1"
    /\ UNCHANGED build_vars
    /\ UNCHANGED call_vars

(* one iteration of: for codepoint, name in sorted(GLYPH_MAP.items()) *)
NameStep ==
    /\ pc = "names"
    /\ idx < Len(sorted_items(GLYPH_MAP))
    /\ LET codepoint == sorted_items(GLYPH_MAP)[idx + 1][1]
           glyph_name == uni_name(codepoint)
       IN /\ glyph_names' = Append(glyph_names, glyph_name)
          /\ cmap' = (codepoint :> glyph_name) @@ cmap
    /\ idx' = idx + 1
    /\ UNCHANGED <<pc, glyph_dict, metrics, fb, out_file>>
    /\ UNCHANGED call_vars

(* fb.setupGlyphOrder(glyph_names); fb.setupCharacterMap(cmap) *)
SetupOrderAndCmap ==
    /\ pc = "names"
    /\ idx = Len(sorted_items(GLYPH_MAP))
    /\ fb' = [fb EXCEPT !.glyphOrder = glyph_names, !.cmap = cmap]
    /\ pc' = "draw"
    /\ idx' = 0
    /\ UNCHANGED <<glyph_names, cmap, glyph_dict, metrics, out_file>>
    /\ UNCHANGED call_vars

(* one iteration of: for glyph_name in glyph_names, with a fresh T2Pen *)
DrawStep ==
    /\ pc = "draw"
    /\ idx < Len(glyph_names)
    /\ LET glyph_name == glyph_names[idx + 1] IN
       /\ IF glyph_name = ".notdef"
          THEN /\ fn' = "box_rect"
               /\ args' = <<100, 0, 400, 700>>
               /\ pen' = box_rect(100, 0, 400, 700)
               /\ fallback_hit' = FALSE
          ELSE IF glyph_name = "space"
          THEN /\ fn' = "none"
               /\ args' = << >>
               /\ pen' = << >>
               /\ fallback_hit' = FALSE
          ELSE LET cp == int_base16(from_3(glyph_name))
                   draw_name == glyph_map_get(cp)
                   drawn == draw_glyph(draw_name)
               IN /\ fn' = "draw_glyph"
                  /\ args' = <<draw_name>>
                  /\ pen' = drawn.calls
                  /\ fallback_hit' = drawn.fallback
       /\ glyph_dict' = (glyph_name :> pen') @@ glyph_dict
    /\ idx' = idx + 1
    /\ UNCHANGED <<pc, glyph_names, cmap, metrics, fb, out_file>>

(* fb.setupCFF(..., charStringsDict=glyph_dict, ...) *)
SetupCFF ==
    /\ pc = "draw"
    /\ idx = Len(glyph_names)
    /\ fb' = [fb EXCEPT !.charStrings = glyph_dict]
    /\ pc' = "metrics"
    /\ idx' = 0
    /\ UNCHANGED <<glyph_names, cmap, glyph_dict, metrics, out_file>>
    /\ UNCHANGED call_vars

(* one iteration of: metrics[glyph_name] = (ADVANCE_WIDTH, 0) *)
MetricsStep ==
    /\ pc = "metrics"
    /\ idx < Len(glyph_names)
    /\ metrics' = (glyph_names[idx + 1] :> <<ADVANCE_WIDTH, 0>>) @@ metrics
    /\ idx' = idx + 1
    /\ UNCHANGED <<pc, glyph_names, cmap, glyph_dict, fb, out_file>>
    /\ UNCHANGED call_vars

(* fb.setupHorizontalMetrics(metrics) and the header, name, OS/2 and post  *)
(* tables, which take constants only                                       *)
SetupMetrics ==
    /\ pc = "metrics"
    /\ idx = Len(glyph_names)
    /\ fb' = [fb EXCEPT !.metrics = metrics]
    /\ pc' = "save"
    /\ UNCHANGED <<idx, glyph_names, cmap, glyph_dict, metrics, out_file>>
    /\ UNCHANGED call_vars

(* A set-up call of the font builder raises; build_font has no handler.    *)
SetupRaises ==
    /\ pc \in {"draw", "metrics"}
    /\ idx = Len(glyph_names)
    /\ pc' = "failed"
    /\ UNCHANGED build_vars
    /\ UNCHANGED call_vars

(* os.makedirs(out_dir, exist_ok=True); fb.font.save(out_path); print.     *)
SaveOk ==
    /\ pc = "save"
    /\ out_file' = "complete"
    /\ pc' = "done"
    /\ UNCHANGED <<idx, glyph_names, cmap, glyph_dict, metrics, fb>>
    /\ UNCHANGED call_vars

(* makedirs or the compilation of the tables raises before out_path is     *)
(* opened: nothing is written.                                             *)
SaveRaisesBeforeOpen ==
    /\ pc = "save"
    /\ pc' = "failed"
    /\ UNCHANGED build_vars
    /\ UNCHANGED call_vars

(* The write to out_path raises after the file was opened for writing.     *)
(* build_font has no try / finally around save and removes nothing.        *)
SaveRaisesWhileWriting ==
    /\ pc = "save"
    /\ out_file' = "partial"
    /\ pc' = "failed"
    /\ UNCHANGED <<idx, glyph_names, cmap, glyph_dict, metrics, fb>>
    /\ UNCHANGED call_vars

Next ==
    \/ ImportOk
    \/ ImportFails
    \/ NameStep
    \/ SetupOrderAndCmap
    \/ DrawStep
    \/ SetupCFF
    \/ MetricsStep
    \/ SetupMetrics
    \/ SetupRaises
    \/ SaveOk
    \/ SaveRaisesBeforeOpen
    \/ SaveRaisesWhileWriting

Spec == Init /\ [][Next]_vars


(***************************************************************************)
(* The drawing functions on their own: each action applies one function of *)
(* the library to inputs drawn from bounded sets and leaves in pen the     *)
(* calls it made on a fresh pen; fn and args record the application.       *)
(***************************************************************************)
CentreInputs == {<<0, 0>>, <<CX, CY>>}
SizeInputs == 0..MaxSize
RadiusInputs == 0..MaxRadius
BoxSideInputs == {0, 1, 40, MaxSize}

(* the r arguments of the circle calls that draw_glyph reaches *)
PROGRAM_RADII ==
    {SZ \div 2, SZ \div 3, SZ \div 4, SZ \div 5, SZ \div 6,
     SZ \div 8, SZ \div 16}

(* identifiers handed to draw_glyph: every name of GLYPH_MAP, the empty    *)
(* string that build_font passes for an absent codepoint, and a name that  *)
(* no branch of the chain compares with                                    *)
UnregisteredInputs == {"", "no-such-glyph"}
IdentifierInputs ==
    {GLYPH_MAP[c] : c \in DOMAIN GLYPH_MAP} \cup UnregisteredInputs

InitCall ==
    /\ pc = "call"
    /\ idx = 0
    /\ glyph_names = << >>
    /\ cmap = << >>
    /\ glyph_dict = << >>
    /\ metrics = << >>
    /\ fb = NO_TABLES
    /\ out_file = "absent"
    /\ fn = "none"
    /\ args = << >>
    /\ pen = << >>
    /\ fallback_hit = FALSE

(* the function f applied to a returns normally, having made these calls *)
Returns(f, a, calls, fell_back) ==
    /\ pc' = "returned"
    /\ fn' = f
    /\ args' = a
    /\ pen' = calls
    /\ fallback_hit' = fell_back
    /\ UNCHANGED build_vars

Call_triangle_up ==
    /\ pc = "call"
    /\ \E c \in CentreInputs, size \in SizeInputs :
           Returns("triangle_up", <<c[1], c[2], size>>, triangle_up(c[1], c[2], size), FALSE)

Call_triangle_down ==
    /\ pc = "call"
    /\ \E c \in CentreInputs, size \in SizeInputs :
           Returns("triangle_down", <<c[1], c[2], size>>, triangle_down(c[1], c[2], size), FALSE)

Call_diamond ==
    /\ pc = "call"
    /\ \E c \in CentreInputs, size \in SizeInputs :
           Returns("diamond", <<c[1], c[2], size>>, diamond(c[1], c[2], size), FALSE)

Call_arc_left ==
    /\ pc = "call"
    /\ \E c \in CentreInputs, size \in SizeInputs :
           Returns("arc_left", <<c[1], c[2], size>>, arc_left(c[1], c[2], size), FALSE)

Call_arc_right ==
    /\ pc = "call"
    /\ \E c \in CentreInputs, size \in SizeInputs :
           Returns("arc_right", <<c[1], c[2], size>>, arc_right(c[1], c[2], size), FALSE)

Call_arrow_right ==
    /\ pc = "call"
    /\ \E c \in CentreInputs, size \in SizeInputs :
           Returns("arrow_right", <<c[1], c[2], size>>, arrow_right(c[1], c[2], size), FALSE)

Call_arrow_up ==
    /\ pc = "call"
    /\ \E c \in CentreInputs, size \in SizeInputs :
           Returns("arrow_up", <<c[1], c[2], size>>, arrow_up(c[1], c[2], size), FALSE)

Call_arrow_down ==
    /\ pc = "call"
    /\ \E c \in CentreInputs, size \in SizeInputs :
           Returns("arrow_down", <<c[1], c[2], size>>, arrow_down(c[1], c[2], size), FALSE)

Call_cross ==
    /\ pc = "call"
    /\ \E c \in CentreInputs, size \in SizeInputs :
           Returns("cross", <<c[1], c[2], size>>, cross(c[1], c[2], size), FALSE)

Call_wave ==
    /\ pc = "call"
    /\ \E c \in CentreInputs, size \in SizeInputs :
           Returns("wave", <<c[1], c[2], size>>, wave(c[1], c[2], size), FALSE)

Call_dot_glyph ==
    /\ pc = "call"
    /\ \E c \in CentreInputs, size \in SizeInputs :
           Returns("dot_glyph", <<c[1], c[2], size>>, dot_glyph(c[1], c[2], size), FALSE)

Call_house ==
    /\ pc = "call"
    /\ \E c \in CentreInputs, size \in SizeInputs :
           Returns("house", <<c[1], c[2], size>>, house(c[1], c[2], size), FALSE)

Call_pillar ==
    /\ pc = "call"
    /\ \E c \in CentreInputs, size \in SizeInputs :
           Returns("pillar", <<c[1], c[2], size>>, pillar(c[1], c[2], size), FALSE)

Call_person ==
    /\ pc = "call"
    /\ \E c \in CentreInputs, size \in SizeInputs :
           Returns("person", <<c[1], c[2], size>>, person(c[1], c[2], size), FALSE)

Call_circle ==
    /\ pc = "call"
    /\ \E c \in CentreInputs, r \in RadiusInputs :
           Returns("circle", <<c[1], c[2], r>>, circle(c[1], c[2], r), FALSE)

Call_box_rect ==
    /\ pc = "call"
    /\ \E c \in CentreInputs, w \in BoxSideInputs, h \in BoxSideInputs :
           Returns("box_rect", <<c[1], c[2], w, h>>,
                   box_rect(c[1], c[2], w, h), FALSE)

Call_star_5 ==
    /\ pc = "call"
    /\ \E c \in CentreInputs, outer_r \in RadiusInputs :
           \E inner_r \in {outer_r \div 2, outer_r \div 3} :
               Returns("star_5", <<c[1], c[2], outer_r, inner_r>>,
                       star_5(c[1], c[2], outer_r, inner_r), FALSE)

Call_draw_glyph ==
    /\ pc = "call"
    /\ \E glyph_name \in IdentifierInputs :
           LET drawn == draw_glyph(glyph_name) IN
           Returns("draw_glyph", <<glyph_name>>, drawn.calls, drawn.fallback)

NextCall ==
    \/ Call_triangle_up
    \/ Call_triangle_down
    \/ Call_diamond
    \/ Call_arc_left
    \/ Call_arc_right
    \/ Call_arrow_right
    \/ Call_arrow_up
    \/ Call_arrow_down
    \/ Call_cross
    \/ Call_wave
    \/ Call_dot_glyph
    \/ Call_house
    \/ Call_pillar
    \/ Call_person
    \/ Call_circle
    \/ Call_box_rect
    \/ Call_star_5
    \/ Call_draw_glyph

CallSpec == InitCall /\ [][NextCall]_vars


(***************************************************************************)
(* Reading a sequence of pen calls as subpaths.                            *)
(***************************************************************************)
IsTerminator(call) == call.op \in {"closePath", "endPath"}

(* every subpath opens with moveTo and ends with its own terminator *)
WellFormed(calls) ==
    \/ calls = << >>
    \/ /\ calls[1].op = "moveTo"
       /\ IsTerminator(calls[Len(calls)])
       /\ \A j \in 1..(Len(calls) - 1) :
              IsTerminator(calls[j]) <=> calls[j + 1].op = "moveTo"

RECURSIVE Subpaths(_)
Subpaths(calls) ==
    IF calls = << >> THEN << >>
    ELSE LET ends == {j \in 1..Len(calls) : IsTerminator(calls[j])}
             e == IF ends = {} THEN Len(calls)
                  ELSE CHOOSE j \in ends : \A m \in ends : j <= m
         IN <<SubSeq(calls, 1, e)>>
            \o Subpaths(SubSeq(calls, e + 1, Len(calls)))

(* moveTo, three lineTo, closePath around an upright rectangle *)
IsClosedRectangle(sub) ==
    /\ Len(sub) = 5
    /\ sub[1].op = "moveTo"
    /\ \A j \in 2..4 : sub[j].op = "lineTo"
    /\ sub[5].op = "closePath"
    /\ LET p1 == sub[1].pts[1]
           p2 == sub[2].pts[1]
           p3 == sub[3].pts[1]
           p4 == sub[4].pts[1]
       IN /\ p1[1] < p2[1] /\ p1[2] = p2[2]
          /\ p3[1] = p2[1] /\ p3[2] > p2[2]
          /\ p4[1] = p1[1] /\ p4[2] = p3[2]

(* moveTo, two lineTo, closePath *)
IsClosedTriangle(sub) ==
    /\ Len(sub) = 4
    /\ sub[1].op = "moveTo"
    /\ sub[2].op = "lineTo"
    /\ sub[3].op = "lineTo"
    /\ sub[4].op = "closePath"

(* moveTo, four curveTo, closePath, back at the start *)
IsClosedFourCurves(sub) ==
    /\ Len(sub) = 6
    /\ sub[1].op = "moveTo"
    /\ \A j \in 2..5 : sub[j].op = "curveTo"
    /\ sub[6].op = "closePath"
    /\ sub[5].pts[3] = sub[1].pts[1]

(* every point handed to the pen in these calls *)
PointsOf(calls) ==
    UNION {{calls[j].pts[m] : m \in 1..Len(calls[j].pts)} :
              j \in 1..Len(calls)}

FIXED_FIRST == 57344
FIXED_LAST == 57378
RADICAL_FIRST == 57600
RADICAL_LAST == 57631
SPACE_CODEPOINT == 32

(* the names loop is over *)
NamesBuilt == pc \notin {"import", "exit1", "names", "call", "returned"}

(***************************************************************************)
(* C1: drawing an identifier that the chain does not name (the empty       *)
(* string included) raises a lookup failure and makes no call on the pen.  *)
(***************************************************************************)
C1_UnregisteredRaises ==
    (fn = "draw_glyph" /\ args[1] \in UnregisteredInputs)
        => (pc = "raised" /\ pen = << >> /\ ~fallback_hit)

(***************************************************************************)
(* C2: every identifier that GLYPH_MAP refers to is drawn by a named       *)
(* branch of draw_glyph; the build never reaches the fallback square, and  *)
(* when the draw loop is over all 67 mapped glyphs have been drawn.        *)
(***************************************************************************)
C2_MappedGlyphsNamed ==
    /\ fn = "draw_glyph" =>
           /\ ~fallback_hit
           /\ pen # box_rect(CX - 20, CY - 20, 40, 40)
    /\ pc \in {"metrics", "save", "done"} =>
           Cardinality(DOMAIN glyph_dict \ {".notdef", "space"}) = 67

C2_Witness ==
    /\ pc = "draw"
    /\ idx = 69
    /\ fn = "draw_glyph"
    /\ args = <<"rad:dot">>
    /\ ~fallback_hit

(***************************************************************************)
(* C3: the codepoint map has exactly 67 entries with pairwise distinct     *)
(* codepoints, 35 in [0xE000, 0xE022] and 32 in [0xE100, 0xE11F]; both     *)
(* ranges are fully covered and nothing lies outside them.                 *)
(***************************************************************************)
C3_CodepointCoverage ==
    NamesBuilt =>
        LET cps == DOMAIN cmap \ {SPACE_CODEPOINT}
            fixed == FIXED_FIRST..FIXED_LAST
            radical == RADICAL_FIRST..RADICAL_LAST
        IN /\ Len(glyph_names) = 2 + 67
           /\ Cardinality(cps) = 67
           /\ Len(GLYPH_MAP_DISPLAY) = 67
           /\ \A i, j \in 1..Len(GLYPH_MAP_DISPLAY) :
                  i # j => GLYPH_MAP_DISPLAY[i][1] # GLYPH_MAP_DISPLAY[j][1]
           /\ Cardinality(cps \cap fixed) = 35
           /\ Cardinality(cps \cap radical) = 32
           /\ fixed \cap radical = {}
           /\ cps = fixed \cup radical

C3_Witness ==
    /\ pc = "draw"
    /\ idx = 0
    /\ Cardinality(DOMAIN cmap) = 68
    /\ cmap[RADICAL_LAST] = "uniE11F"

C5_AllOrNothing ==
    out_file # "absent" => (pc = "done" /\ out_file = "complete")


(***************************************************************************)
(* C6: every subpath of a filled primitive ends with closePath and every   *)
(* subpath of a stroke (the arcs, the wave, the angle brackets of          *)
(* precedes, struct:triple and struct:end) ends with endPath; no drawing   *)
(* function leaves a subpath without its terminator.                       *)
(***************************************************************************)
FILLED_PRIMITIVES ==
    {"triangle_up", "triangle_down", "diamond", "box_rect", "star_5",
     "cross", "arrow_right", "arrow_up", "arrow_down"}
STROKE_PRIMITIVES == {"arc_left", "arc_right", "wave"}
BRACKET_GLYPHS == {"precedes", "struct:triple", "struct:end"}

EverySubpathEndsWith(calls, terminator) ==
    /\ calls # << >>
    /\ WellFormed(calls)
    /\ \A j \in 1..Len(calls) :
           IsTerminator(calls[j]) => calls[j].op = terminator

C6_TerminatorMatchesKind ==
    /\ WellFormed(pen)
    /\ fn \in FILLED_PRIMITIVES => EverySubpathEndsWith(pen, "closePath")
    /\ fn \in STROKE_PRIMITIVES => EverySubpathEndsWith(pen, "endPath")
    /\ (fn = "draw_glyph" /\ args[1] \in BRACKET_GLYPHS) =>
           EverySubpathEndsWith(pen, "endPath")

C6_Witness ==
    /\ pc = "returned"
    /\ fn = "wave"
    /\ args = <<CX, CY, SZ>>
    /\ Len(Subpaths(pen)) = 1
    /\ pen[Len(pen)].op = "endPath"

(***************************************************************************)
(* Comparing an emitted integer offset e with the exact value num / den.   *)
(* The exact product k * r is (KProductQ(r) + KProductR(r) / 10^5) / 10^5. *)
(***************************************************************************)
Abs(x) == IF x >= 0 THEN x ELSE -x

IsNearest(e, num, den) == 2 * Abs(e * den - num) <= den

IsTruncated(e, num, den) ==
    IF num >= 0
    THEN e >= 0 /\ e * den <= num /\ num < (e + 1) * den
    ELSE e <= 0 /\ (e - 1) * den < num /\ num <= e * den

KProductQ(r) == r * K_HI + (r * K_LO) \div K_GROUP
KProductR(r) == (r * K_LO) % K_GROUP

KIsNearest(e, r) ==
    LET lo == (2 * e - 1) * (K_GROUP \div 2)
        hi == (2 * e + 1) * (K_GROUP \div 2)
    IN /\ KProductQ(r) >= lo
       /\ \/ KProductQ(r) < hi
          \/ KProductQ(r) = hi /\ KProductR(r) = 0

KIsTruncated(e, r) ==
    /\ e * K_GROUP <= KProductQ(r)
    /\ KProductQ(r) < (e + 1) * K_GROUP

(* the offsets of the eight control points of a four-curve subpath from    *)
(* their adjacent on-curve points, as <<|dx|, |dy|>>                       *)
ControlOffsets(sub) ==
    UNION {LET from == IF j = 2 THEN sub[1].pts[1] ELSE sub[j - 1].pts[3]
               c1 == sub[j].pts[1]
               c2 == sub[j].pts[2]
               to == sub[j].pts[3]
           IN {<<Abs(c1[1] - from[1]), Abs(c1[2] - from[2])>>,
               <<Abs(c2[1] - to[1]), Abs(c2[2] - to[2])>>}
           : j \in 2..5}

(* the control offsets k of an arc: two along y from the middle point,     *)
(* two along x from the end points                                         *)
ArcOffsets(calls) ==
    {calls[2].pts[2][2] - calls[2].pts[3][2],
     calls[2].pts[3][2] - calls[3].pts[1][2],
     Abs(calls[2].pts[1][1] - calls[1].pts[1][1]),
     Abs(calls[3].pts[2][1] - calls[3].pts[3][1])}

(* how the emitted coordinates relate to the exact ones, for a relation    *)
(* rel on (offset, num, den) and a relation krel on (offset, r)            *)
CoordinatesAre(rel(_, _, _), krel(_, _)) ==
    /\ fn = "star_5" =>
           \A j \in 1..10 :
               LET r == IF (j - 1) % 2 = 0 THEN args[3] ELSE args[4]
                   angle == 90 + (j - 1) * 36
                   p == pen[j].pts[1]
               IN /\ rel(p[1] - args[1], r * cos_e6(angle), TRIG_UNIT)
                  /\ rel(p[2] - args[2], r * sin_e6(angle), TRIG_UNIT)
    /\ (fn = "draw_glyph" /\ args[1] = "rad:sun") =>
           \A i \in 0..7 :
               LET from == pen[6 + 3 * i + 1].pts[1]
                   to == pen[6 + 3 * i + 2].pts[1]
                   r1 == SZ \div 3 + 20
                   r2 == SZ \div 2
               IN /\ rel(from[1] - CX, r1 * cos_e6(45 * i), TRIG_UNIT)
                  /\ rel(from[2] - CY, r1 * sin_e6(45 * i), TRIG_UNIT)
                  /\ rel(to[1] - CX, r2 * cos_e6(45 * i), TRIG_UNIT)
                  /\ rel(to[2] - CY, r2 * sin_e6(45 * i), TRIG_UNIT)
    /\ fn = "circle" =>
           \A o \in ControlOffsets(pen) : krel(o[1] + o[2], args[3])
    /\ fn \in {"arc_left", "arc_right"} =>
           \A k \in ArcOffsets(pen) : rel(k, 55 * (args[3] \div 2), 100)

(* the call is made with arguments that draw_glyph itself uses *)
ProgramCall ==
    /\ fn = "star_5" => args[3] = SZ \div 2 /\ args[4] = SZ \div 4
    /\ fn = "circle" => args[3] \in PROGRAM_RADII
    /\ fn \in {"arc_left", "arc_right"} => args[3] = SZ

(***************************************************************************)
(* C7 as stated, for the arguments the program uses: every coordinate      *)
(* computed from a real-valued product (the star_5 and rad:sun vertices,   *)
(* the control offsets of circle and of the arcs) is the exact value       *)
(* rounded to the nearest integer.                                         *)
(***************************************************************************)
C7_RoundedToNearest == ProgramCall => CoordinatesAre(IsNearest, KIsNearest)

(***************************************************************************)
(* C7 amended: every coordinate handed to the pen is an integer, and the   *)
(* star_5 and rad:sun vertices and the control offsets of circle and of    *)
(* the arcs are the centre plus the exact offset truncated toward zero.    *)
(***************************************************************************)
C7_TruncatedTowardZero ==
    /\ \A p \in PointsOf(pen) : p[1] \in Int /\ p[2] \in Int
    /\ CoordinatesAre(IsTruncated, KIsTruncated)

(* the first inner vertex of the star of prov:discovered: 100 cos 126 is   *)
(* -58.78 and 100 sin 126 is 80.90; the pen gets -58 and 80                *)
C7_Witness ==
    /\ pc = "returned"
    /\ fn = "star_5"
    /\ args = <<CX, CY, SZ \div 2, SZ \div 4>>
    /\ pen[2].pts[1] = <<CX - 58, CY + 80>>
    /\ ~IsNearest(-58, (SZ \div 4) * cos_e6(126), TRIG_UNIT)
    /\ ~IsNearest(80, (SZ \div 4) * sin_e6(126), TRIG_UNIT)

(***************************************************************************)
(* The outline of circle(cx, cy, r): one closed subpath of four cubic      *)
(* segments from (cx, cy+r) through (cx+r, cy), (cx, cy-r), (cx-r, cy)     *)
(* back to (cx, cy+r), the control points offset along one axis only and   *)
(* all by the same amount.                                                 *)
(***************************************************************************)
CircleOutline(calls, cx, cy, r) ==
    /\ WellFormed(calls)
    /\ Len(Subpaths(calls)) = 1
    /\ IsClosedFourCurves(calls)
    /\ calls[1].pts[1] = <<cx, cy + r>>
    /\ calls[2].pts[3] = <<cx + r, cy>>
    /\ calls[3].pts[3] = <<cx, cy - r>>
    /\ calls[4].pts[3] = <<cx - r, cy>>
    /\ calls[5].pts[3] = <<cx, cy + r>>
    /\ \A o \in ControlOffsets(calls) : o[1] = 0 \/ o[2] = 0
    /\ Cardinality({o[1] + o[2] : o \in ControlOffsets(calls)}) = 1

(***************************************************************************)
(* C8 as stated: for every radius the program uses, circle emits that      *)
(* outline and the common control offset equals round(0.5522847498 * r).   *)
(***************************************************************************)
C8_OffsetIsRounded ==
    (fn = "circle" /\ args[3] \in PROGRAM_RADII) =>
        /\ CircleOutline(pen, args[1], args[2], args[3])
        /\ \A o \in ControlOffsets(pen) : KIsNearest(o[1] + o[2], args[3])

(***************************************************************************)
(* C8 amended: for every radius, circle emits that outline and the common  *)
(* control offset equals 0.5522847498 * r truncated to an integer, which   *)
(* is round(0.5522847498 * r) or one unit less.                            *)
(***************************************************************************)
C8_OffsetIsTruncated ==
    fn = "circle" =>
        /\ CircleOutline(pen, args[1], args[2], args[3])
        /\ \A o \in ControlOffsets(pen) :
               /\ KIsTruncated(o[1] + o[2], args[3])
               /\ \/ KIsNearest(o[1] + o[2], args[3])
                  \/ KIsNearest(o[1] + o[2] + 1, args[3])

(* the pupil of rad:eye: 0.5522847498 * 50 is 27.61; the offset is 27 *)
C8_Witness ==
    /\ pc = "returned"
    /\ fn = "circle"
    /\ args = <<CX, CY, SZ \div 8>>
    /\ pen[2].pts[1] = <<CX + 27, CY + SZ \div 8>>
    /\ ~KIsNearest(27, SZ \div 8)

(***************************************************************************)
(* C9: codepoint 0xE009 resolves to located-in and its record is the       *)
(* house: two closed subpaths, the rectangle body first, then the upward   *)
(* triangle roof, centred size/4 above the glyph centre, its base lying on *)
(* the top edge of the body with no gap and no overlap.                    *)
(***************************************************************************)
C9_HouseAtE009 ==
    /\ (pc = "draw" /\ idx >= 1 /\ glyph_names[idx] = "uniE009") =>
           /\ fn = "draw_glyph"
           /\ args = <<"located-in">>
           /\ glyph_dict["uniE009"] = pen
    /\ "uniE009" \in DOMAIN glyph_dict =>
           LET calls == glyph_dict["uniE009"]
               body == Subpaths(calls)[1]
               roof == Subpaths(calls)[2]
               apex == roof[1].pts[1]
               base_right == roof[2].pts[1]
               base_left == roof[3].pts[1]
               top_left == body[4].pts[1]
               top_right == body[3].pts[1]
           IN /\ WellFormed(calls)
              /\ Len(Subpaths(calls)) = 2
              /\ IsClosedRectangle(body)
              /\ IsClosedTriangle(roof)
              /\ base_left[2] = base_right[2]
              /\ apex[2] > base_left[2]
              /\ base_left[1] < apex[1] /\ apex[1] < base_right[1]
              /\ apex[1] = CX
              /\ 2 * (apex[2] + base_left[2]) - 4 * CY = SZ
              /\ base_left = top_left
              /\ base_right = top_right
              /\ \A p \in PointsOf(body) : p[2] <= top_left[2]
              /\ \A p \in PointsOf(roof) : p[2] >= top_left[2]

C9_Witness ==
    /\ pc = "draw"
    /\ idx = 12
    /\ glyph_names[idx] = "uniE009"
    /\ args = <<"located-in">>
    /\ Len(Subpaths(pen)) = 2

(***************************************************************************)
(* The person pictogram: a closed four-curve head, then a closed triangle  *)
(* body wholly below the lowest point of the head, whose first vertex is   *)
(* the single apex and whose other two vertices share one height.          *)
(* apex_vs_base(apex_y, base_y) says where the apex lies.                  *)
(***************************************************************************)
PERSON_GLYPHS == {"type:person", "rad:figure"}

PersonOutline(calls, apex_vs_base(_, _)) ==
    LET head == Subpaths(calls)[1]
        body == Subpaths(calls)[2]
        apex == body[1].pts[1]
        base_right == body[2].pts[1]
        base_left == body[3].pts[1]
    IN /\ WellFormed(calls)
       /\ Len(Subpaths(calls)) = 2
       /\ IsClosedFourCurves(head)
       /\ IsClosedTriangle(body)
       /\ \A h \in PointsOf(head), b \in PointsOf(body) : b[2] < h[2]
       /\ base_left[2] = base_right[2]
       /\ base_left[1] < base_right[1]
       /\ apex_vs_base(apex[2], base_left[2])

ApexLower(apex_y, base_y) == apex_y < base_y
ApexHigher(apex_y, base_y) == apex_y > base_y

(***************************************************************************)
(* C10 as stated: the person of type:person and rad:figure is a circle     *)
(* head, then a triangle body below it that is inverted: its apex is lower *)
(* than its two base vertices.                                             *)
(***************************************************************************)
C10_BodyInverted ==
    (fn = "draw_glyph" /\ args[1] \in PERSON_GLYPHS) =>
        PersonOutline(pen, ApexLower)

(***************************************************************************)
(* C10 amended: the person (of type:person and rad:figure, and of any size *)
(* of at least 6) is a circle head, then a triangle body below it that is  *)
(* upright: its apex, just under the head, is higher than its two base     *)
(* vertices.                                                               *)
(***************************************************************************)
C10_BodyUpright ==
    (\/ fn = "draw_glyph" /\ args[1] \in PERSON_GLYPHS
     \/ fn = "person" /\ args[3] >= 6) =>
        PersonOutline(pen, ApexHigher)

C10_Witness ==
    /\ pc = "returned"
    /\ fn = "draw_glyph"
    /\ args = <<"type:person">>
    /\ pen[7].pts[1] = <<300, 365>>
    /\ pen[8].pts[1] = <<433, 167>>
    /\ pen[9].pts[1] = <<167, 167>>


(***************************************************************************)
(* C11: the tables handed to the font builder agree: the glyph order has   *)
(* 69 pairwise distinct names; the character map has the domain {0x20},    *)
(* 0xE000..0xE022, 0xE100..0xE11F, sends 0x20 to space and each other      *)
(* codepoint c to uni followed by the four upper-case hex digits of c, and *)
(* is injective; every glyph of the order has one charstring and one       *)
(* metrics entry, whose advance width is 600.                              *)
(***************************************************************************)
UPPER_HEX ==
    {"0", "1", "2", "3", "4", "5", "6", "7",
     "8", "9", "A", "B", "C", "D", "E", "F"}

(* name is uni and four upper-case hex digits that spell c *)
IsUniNameOf(name, c) ==
    /\ Len(name) = 7
    /\ SubSeq(name, 1, 3) = "uni"
    /\ \A j \in 4..7 : SubSeq(name, j, j) \in UPPER_HEX
    /\ c = 4096 * hex_value(SubSeq(name, 4, 4))
           + 256 * hex_value(SubSeq(name, 5, 5))
           + 16 * hex_value(SubSeq(name, 6, 6))
           + hex_value(SubSeq(name, 7, 7))

OrderedNames == {fb.glyphOrder[j] : j \in 1..Len(fb.glyphOrder)}

C11_TablesAgree ==
    /\ Len(fb.glyphOrder) > 0 =>
           /\ Len(fb.glyphOrder) = 69
           /\ Cardinality(OrderedNames) = 69
    /\ DOMAIN fb.cmap # {} =>
           /\ DOMAIN fb.cmap = {SPACE_CODEPOINT}
                                \cup (FIXED_FIRST..FIXED_LAST)
                                \cup (RADICAL_FIRST..RADICAL_LAST)
           /\ fb.cmap[SPACE_CODEPOINT] = "space"
           /\ \A c \in DOMAIN fb.cmap \ {SPACE_CODEPOINT} :
                  IsUniNameOf(fb.cmap[c], c)
           /\ \A c, d \in DOMAIN fb.cmap :
                  fb.cmap[c] = fb.cmap[d] => c = d
           /\ {fb.cmap[c] : c \in DOMAIN fb.cmap} \subseteq OrderedNames
    /\ DOMAIN fb.charStrings # {} =>
           DOMAIN fb.charStrings = OrderedNames
    /\ DOMAIN fb.metrics # {} =>
           /\ DOMAIN fb.metrics = OrderedNames
           /\ \A g \in OrderedNames :
                  fb.metrics[g][1] = 600 /\ fb.metrics[g][1] = ADVANCE_WIDTH

C11_Witness ==
    /\ pc = "done"
    /\ Len(fb.glyphOrder) = 69
    /\ fb.cmap[57353] = "uniE009"
    /\ Len(fb.charStrings["uniE009"]) = 9
    /\ fb.metrics["uniE11F"] = <<600, 0>>

(***************************************************************************)
(* C12: every point that a mapped glyph hands to the pen, on-curve points  *)
(* and control points alike, lies in the margined cell:                    *)
(* M <= x <= ADVANCE_WIDTH - M and DESCENT <= y <= ASCENT.                 *)
(***************************************************************************)
InCell(p) ==
    /\ M <= p[1] /\ p[1] <= ADVANCE_WIDTH - M
    /\ DESCENT <= p[2] /\ p[2] <= ASCENT

C12_GlyphsInsideCell ==
    /\ fn = "draw_glyph" => \A p \in PointsOf(pen) : InCell(p)
    /\ \A g \in DOMAIN glyph_dict \ {".notdef", "space"} :
           \A p \in PointsOf(glyph_dict[g]) : InCell(p)

(* the right foot of the larger peak of rad:mountain lies on the margin *)
C12_Witness ==
    /\ pc = "draw"
    /\ fn = "draw_glyph"
    /\ args = <<"rad:mountain">>
    /\ <<ADVANCE_WIDTH - M, 100>> \in PointsOf(pen)

====
